---- MODULE Spec2Model ----
(***************************************************************************)
(* Model of the external sort engine of go-filesort (src/filesort.go).     *)
(*                                                                         *)
(* One FileSort object: a writer calling Sort and Close, the background    *)
(* worker goroutine running sort() (drain, spill, merge), and a reader     *)
(* calling Read.  Records are pairs <<key, idx>>: the comparator looks at  *)
(* the key only, idx is the position of the record in the written input,   *)
(* so equal-ranked records stay distinguishable.                           *)
(***************************************************************************)
EXTENDS Integers, Sequences, FiniteSets, TLC

\* ---- bounds of the model ------------------------------------------------
MaxWrites    == 3      \* Sort calls made by the writer
MaxKey       == 2      \* keys are 1..MaxKey
MaxBufferMax == 4      \* thresholds are 1..MaxBufferMax
ChanCap      == 2      \* capacity of the in and out channels (4096 in the code)
MaxEosReads  == 1      \* Read calls made after the first end-of-stream value
MaxCloses    == 2      \* Close calls made by the writer

\* bufferMax when WithMaxMemoryBuffer is not given
DefaultBufferMax == 1048576

Keys == 1..MaxKey

\* ---- values --------------------------------------------------------------
Nil   == <<>>          \* the nil record: end of stream
NoErr == "nil"         \* the nil error
ErrTempDir  == "couldn't create temporary directory"
ErrEncode   == "couldn't encode a value"
ErrEncClose == "error when closing encoder"
ErrDecode   == "error while decoding a record"
ErrNew      == "less, decoder and encoder constructors are required"

VARIABLES
  opts,       \* the options given to New: which of them are present
  newErr,     \* the error New returned
  lessKind,   \* ps.less: "byKey" compares keys, "never" always returns false
  bufferMax,  \* ps.bufferMax
  in,         \* ps.in: records queued on the input channel
  inClosed,   \* ps.in has been closed
  out,        \* ps.out: records queued on the output channel
  outClosed,  \* ps.out has been closed
  buffer,     \* ps.buffer
  bufferLen,  \* ps.bufferLen
  files,      \* ps.files: one entry per spill file, holding the file's contents
  err,        \* ps.err: the terminal error cell
  wpc,        \* position of the worker goroutine
  werr,       \* the worker's local variable err of sort()
  mr,         \* the merge reader the worker is draining
  merr,       \* the error returned by merge(), not yet stored
  wrPc,       \* position of the writer inside Sort
  pending,    \* the record a Sort call is about to send
  nSort,      \* number of Sort calls made
  sortRes,    \* result of the last returned Sort call
  written,    \* records sent on ps.in, in order
  reads,      \* results of the Read calls, in order: [val, err]
  nClose,     \* number of Close calls made
  failed,     \* the operation of the worker that failed ("none": none has)
  encoders    \* per Encoder constructed by a spill, the calls it received

vars == <<opts, newErr, nClose, failed, lessKind, bufferMax, in, inClosed,
          out, outClosed, buffer, bufferLen, encoders,
          files, err, wpc, werr, mr, merr, wrPc, pending, nSort, sortRes,
          written, reads>>

\* ---- comparator and stable sort -------------------------------------------
less(a, b) == IF lessKind = "byKey" THEN a[1] < b[1] ELSE FALSE

\* position of the first element of a sorted slice that x is less than
FirstGreater(s, x) ==
  IF \E i \in 1..Len(s) : less(x, s[i])
    THEN CHOOSE i \in 1..Len(s) :
           less(x, s[i]) /\ \A j \in 1..(i-1) : ~less(x, s[j])
    ELSE Len(s) + 1

InsertStable(s, x) ==
  LET k == FirstGreater(s, x)
  IN  SubSeq(s, 1, k-1) \o <<x>> \o SubSeq(s, k, Len(s))

RECURSIVE SortPrefix(_, _)
SortPrefix(s, n) ==
  IF n = 0 THEN <<>> ELSE InsertStable(SortPrefix(s, n-1), s[n])

\* faulty variant: the buffer is handed on unsorted
SliceAsIs(s) == s

\* sort.SliceStable(ps.buffer, less)
SliceStable(s) == SortPrefix(s, Len(s))

\* ---- readers ---------------------------------------------------------------
NilReader == [kind |-> "none"]

Res(v, e, r) == [val |-> v, err |-> e, r |-> r]

sliceReader(s) == [kind |-> "slice", n |-> 0, slice |-> s]

\* a fileReader over an open file; failAt = k > 0 makes the k-th Decode fail
makeFileReader(data, failAt) ==
  [kind |-> "file", open |-> TRUE, data |-> data, pos |-> 0, failAt |-> failAt]

sliceNext(sr) ==
  IF sr.n = Len(sr.slice)
    THEN Res(Nil, NoErr, [sr EXCEPT !.slice = <<>>, !.n = 0])
    ELSE Res(sr.slice[sr.n + 1], NoErr, [sr EXCEPT !.n = sr.n + 1])

fileNext(fr) ==
  IF ~fr.open THEN Res(Nil, NoErr, fr)
  ELSE IF fr.pos + 1 = fr.failAt
    THEN Res(Nil, ErrDecode, [fr EXCEPT !.pos = fr.pos + 1])
  ELSE IF fr.pos < Len(fr.data)
    THEN Res(fr.data[fr.pos + 1], NoErr, [fr EXCEPT !.pos = fr.pos + 1])
  ELSE Res(Nil, NoErr, [fr EXCEPT !.open = FALSE])

RECURSIVE readerNext(_)

\* faulty variant: exhaustion is reported as soon as one child is exhausted
mergeNextStopsEarly(m) ==
  IF m.n0 = Nil \/ m.n1 = Nil THEN Res(Nil, NoErr, [m EXCEPT !.cmp = Nil])
  ELSE IF less(m.n0, m.n1) THEN
    LET a == readerNext(m.rs0)
        m2 == [m EXCEPT !.n0 = a.val, !.rs0 = a.r, !.cmp = <<m.n0, m.n1>>]
    IN  IF a.err # NoErr THEN Res(Nil, a.err, m2) ELSE Res(m.n0, NoErr, m2)
  ELSE
    LET b == readerNext(m.rs1)
        m2 == [m EXCEPT !.n1 = b.val, !.rs1 = b.r, !.cmp = <<m.n0, m.n1>>]
    IN  IF b.err # NoErr THEN Res(Nil, b.err, m2) ELSE Res(m.n1, NoErr, m2)

\* the closure next of newMergeReader.  cmp holds the arguments of the call
\* of less this call of next made (Nil: it made none); alias says that
\* "rs0 = rs1" has run, so that rs1 is the same reader as rs0.
mergeNext(m) ==
  IF m.n0 = Nil THEN Res(Nil, NoErr, [m EXCEPT !.cmp = Nil])
  ELSE IF m.n1 = Nil THEN
    LET a == readerNext(m.rs0)
        m2 == [m EXCEPT !.n0 = a.val, !.rs0 = a.r, !.cmp = Nil,
                        !.rs1 = IF m.alias THEN a.r ELSE m.rs1]
    IN  IF a.err # NoErr THEN Res(Nil, a.err, m2) ELSE Res(m.n0, NoErr, m2)
  ELSE IF less(m.n0, m.n1) THEN
    LET a == readerNext(m.rs0)
        m2 == [m EXCEPT !.n0 = a.val, !.rs0 = a.r, !.cmp = <<m.n0, m.n1>>]
    IN  IF a.err # NoErr THEN Res(Nil, a.err, m2)
        ELSE IF a.val = Nil
          THEN Res(m.n0, NoErr, [m2 EXCEPT !.n0 = m.n1, !.n1 = Nil,
                                           !.rs0 = m.rs1, !.alias = TRUE])
          ELSE Res(m.n0, NoErr, m2)
  ELSE
    LET b == readerNext(m.rs1)
        m2 == [m EXCEPT !.n1 = b.val, !.rs1 = b.r, !.cmp = <<m.n0, m.n1>>]
    IN  IF b.err # NoErr THEN Res(Nil, b.err, m2) ELSE Res(m.n1, NoErr, m2)

\* reader.Next
readerNext(r) ==
  CASE r.kind = "slice" -> sliceNext(r)
    [] r.kind = "file"  -> fileNext(r)
    [] r.kind = "merge" -> mergeNext(r)

\* result of newMergeReader: a reader, an error, or a recursion that never ends
Built(r, e, o) == [r |-> r, err |-> e, overflow |-> o]

\* the part of newMergeReader after rs0 and rs1 are chosen
pairReaders(rs0, rs1) ==
  LET a == readerNext(rs0)
  IN  IF a.err # NoErr THEN Built(NilReader, a.err, FALSE)
      ELSE IF a.val = Nil THEN Built(rs1, NoErr, FALSE)
      ELSE LET b == readerNext(rs1)
           IN  IF b.err # NoErr THEN Built(NilReader, b.err, FALSE)
               ELSE Built([kind |-> "merge", n0 |-> a.val, n1 |-> b.val,
                           rs0 |-> a.r, rs1 |-> b.r, cmp |-> Nil,
                           alias |-> FALSE], NoErr, FALSE)

RECURSIVE newMergeReader(_)
newMergeReader(rs) ==
  LET n == Len(rs)
  IN  IF n = 0 THEN Built(NilReader, NoErr, TRUE)
      ELSE IF n = 1 THEN Built(rs[1], NoErr, FALSE)
      ELSE IF n = 2 THEN pairReaders(rs[1], rs[2])
      ELSE LET h == n \div 2
               l == newMergeReader(SubSeq(rs, 1, h))
           IN  IF l.overflow \/ l.err # NoErr THEN l
               ELSE LET g == newMergeReader(SubSeq(rs, h+1, n))
                    IN  IF g.overflow \/ g.err # NoErr THEN g
                        ELSE pairReaders(l.r, g.r)

\* ---- spill -----------------------------------------------------------------
\* what can go wrong in one flushBuffer call
SpillFaults(buf) ==
  {[kind |-> "none", at |-> 0], [kind |-> "tempfile", at |-> 0],
   [kind |-> "close", at |-> 0]}
    \cup {[kind |-> "encode", at |-> i] : i \in 1..Len(buf)}

\* the calls one Encoder receives: Encode of the first n records of buf, and
\* Close
EncodeCalls(buf, n) == [i \in 1..n |-> [op |-> "Encode", v |-> buf[i]]]

CloseCall == [op |-> "Close", v |-> Nil]

\* encs: the call log of the Encoder this flushBuffer constructed, if it got
\* as far as ps.newEncoder(file)
Flushed(buf, len, fls, e, p, encs) ==
  [buffer |-> buf, bufferLen |-> len, files |-> fls, err |-> e, panic |-> p,
   encs |-> encs]

\* faulty variant: a successful spill leaves the buffer as it was
FlushKeepBuffer(buf, len, fls, fault) ==
  IF fault.kind = "tempfile" THEN Flushed(buf, len, fls, NoErr, TRUE, <<>>)
  ELSE IF fault.kind = "encode"
    THEN Flushed(buf, len, Append(fls, SubSeq(buf, 1, fault.at - 1)),
                 ErrEncode, FALSE, <<EncodeCalls(buf, fault.at)>>)
  ELSE Flushed(buf, len, Append(fls, buf),
               IF fault.kind = "close" THEN ErrEncClose ELSE NoErr, FALSE,
               <<EncodeCalls(buf, Len(buf)) \o <<CloseCall>>>>)

\* ps.flushBuffer(tempDir) on a sorted buffer.  A failed ioutil.TempFile
\* returns a nil file, and file.Name() on it panics before err is looked at.
\* A failed Encode returns at once: enc.Close is not called and the buffer
\* is left as it is.
flushBuffer(buf, len, fls, fault) ==
  IF fault.kind = "tempfile" THEN Flushed(buf, len, fls, NoErr, TRUE, <<>>)
  ELSE IF fault.kind = "encode"
    THEN Flushed(buf, len, Append(fls, SubSeq(buf, 1, fault.at - 1)),
                 ErrEncode, FALSE, <<EncodeCalls(buf, fault.at)>>)
  ELSE Flushed(<<>>, 0, Append(fls, buf),
               IF fault.kind = "close" THEN ErrEncClose ELSE NoErr, FALSE,
               <<EncodeCalls(buf, Len(buf)) \o <<CloseCall>>>>)

\* ---- construction ----------------------------------------------------------
\* the options a caller may give: less, encoder and decoder constructors, and
\* WithMaxMemoryBuffer
Options == [less : BOOLEAN, enc : BOOLEAN, dec : BOOLEAN, hasMax : BOOLEAN]

Constructed(o, max, e, started) ==
  [err |-> e, started |-> started,
   bufferMax |-> IF o.hasMax THEN max ELSE DefaultBufferMax]

\* faulty variant: the decoder constructor is not required
NewNoDecoderCheck(o, max) ==
  IF ~o.less \/ ~o.enc
    THEN Constructed(o, max, ErrNew, FALSE)
    ELSE Constructed(o, max, NoErr, TRUE)

\* New(opts...): the options applied to the defaults, the check of the
\* required ones, and "go ps.sort()"
New(o, max) ==
  IF ~o.less \/ ~o.dec \/ ~o.enc
    THEN Constructed(o, max, ErrNew, FALSE)
    ELSE Constructed(o, max, NoErr, TRUE)

\* the state after New: the channels are empty and open; the worker has just
\* been started, or New has returned an error and there is no worker
Init ==
  /\ opts \in Options
  /\ \E max \in 1..MaxBufferMax :
       LET n == New(opts, max)
       IN  /\ newErr = n.err /\ bufferMax = n.bufferMax
           /\ wpc = IF n.started THEN "tempdir" ELSE "none"
  /\ lessKind \in (IF opts.less THEN {"byKey", "never"} ELSE {"missing"})
  /\ nClose = 0 /\ failed = "none"
  /\ in = <<>> /\ inClosed = FALSE
  /\ out = <<>> /\ outClosed = FALSE
  /\ buffer = <<>> /\ bufferLen = 0 /\ files = <<>> /\ encoders = <<>>
  /\ err = NoErr
  /\ werr = NoErr
  /\ mr = NilReader /\ merr = NoErr
  /\ wrPc = "idle" /\ pending = Nil /\ nSort = 0 /\ sortRes = NoErr
  /\ written = <<>> /\ reads = <<>>

\* the process is alive and New returned a handle: no goroutine has panicked
Running == wpc \notin {"crashed", "none"} /\ wrPc # "panicked"

\* ---- the worker: sort() ----------------------------------------------------
\* faulty variant: the failure of ioutil.TempDir is kept local, not stored
TempDirUnstored ==
  /\ Running /\ wpc = "tempdir"
  /\ \E ok \in BOOLEAN :
       /\ werr' = IF ok THEN NoErr ELSE ErrTempDir
       /\ failed' = IF ok THEN failed ELSE "tempdir"
  /\ wpc' = "drain"
  /\ UNCHANGED <<encoders, err,
                 opts, newErr, nClose, lessKind, bufferMax, in, inClosed,
                 out, outClosed, buffer, bufferLen, files, mr, merr, wrPc,
                 pending, nSort, sortRes, written, reads>>

\* ioutil.TempDir, and the Store of its failure
TempDir ==
  /\ Running /\ wpc = "tempdir"
  /\ \E ok \in BOOLEAN :
       /\ werr' = IF ok THEN NoErr ELSE ErrTempDir
       /\ err'  = IF ok THEN err ELSE ErrTempDir
       /\ failed' = IF ok THEN failed ELSE "tempdir"
  /\ wpc' = "drain"
  /\ UNCHANGED <<encoders,
                 opts, newErr, nClose, lessKind, bufferMax, in, inClosed,
                 out, outClosed, buffer, bufferLen, files, mr, merr, wrPc,
                 pending, nSort, sortRes, written, reads>>

\* faulty variant: the spill waits until the buffer is over the threshold
overMax(len) == len > bufferMax

\* "ps.bufferLen >= ps.bufferMax"
reachedMax(len) == len >= bufferMax

\* faulty variant: the loop goes on buffering after a failure
neverSkip == FALSE

\* "if err != nil { continue }"
skipInput == werr # NoErr

\* faulty variant: the loop ends as soon as the channel is empty
inputEmpty == in = <<>>

\* the end of "for v := range ps.in": the channel is closed and drained
inputEnded == in = <<>> /\ inClosed

\* one iteration of "for v := range ps.in"
Drain ==
  /\ Running /\ wpc = "drain" /\ in # <<>>
  /\ in' = Tail(in)
  /\ IF skipInput
       THEN UNCHANGED <<buffer, bufferLen, files, err, werr, wpc, failed,
                        encoders>>
       ELSE LET buf == Append(buffer, Head(in))
                len == bufferLen + 1
            IN  IF reachedMax(len)
                  THEN \E fault \in SpillFaults(buf) :
                         LET f == flushBuffer(SliceStable(buf), len, files, fault)
                         IN  /\ buffer' = f.buffer
                             /\ bufferLen' = f.bufferLen
                             /\ files' = f.files
                             /\ encoders' = encoders \o f.encs
                             /\ werr' = f.err
                             /\ err' = IF f.err # NoErr THEN f.err ELSE err
                             /\ wpc' = IF f.panic THEN "crashed" ELSE wpc
                             /\ failed' = IF fault.kind = "none" THEN failed
                                                               ELSE fault.kind
                  ELSE /\ buffer' = buf /\ bufferLen' = len
                       /\ UNCHANGED <<files, err, werr, wpc, failed, encoders>>
  /\ UNCHANGED <<opts, newErr, nClose, lessKind, bufferMax, inClosed, out,
                 outClosed, mr, merr, wrPc, pending, nSort, sortRes, written,
                 reads>>

\* the Decode call of each spill file that fails (0: none)
DecodeFaults == [1..Len(files) -> 0..(bufferMax + 1)]

\* the readers merge() builds: the residual buffer first, then the files
mergeReaders(buf, fls, failAt) ==
  (IF Len(buf) > 0 THEN <<sliceReader(buf)>> ELSE <<>>)
    \o [i \in 1..Len(fls) |-> makeFileReader(fls[i], failAt[i])]

\* faulty variant: the merge runs even though a failure was recorded
EndOfInputAnyway ==
  /\ Running /\ wpc = "drain" /\ inputEnded
  /\ LET buf == SliceStable(buffer)
     IN  /\ buffer' = buf
         /\ \E openFails \in BOOLEAN, failAt \in DecodeFaults :
              IF openFails /\ files # <<>>
                THEN /\ wpc' = "panicking" /\ failed' = "open"
                     /\ outClosed' = TRUE /\ UNCHANGED <<mr, merr>>
                ELSE LET b == newMergeReader(mergeReaders(buf, files, failAt))
                     IN  IF b.overflow
                           THEN wpc' = "crashed" /\ UNCHANGED <<mr, merr, outClosed, failed>>
                         ELSE IF b.err # NoErr
                           THEN /\ outClosed' = TRUE /\ merr' = b.err
                                /\ wpc' = "store" /\ failed' = "decode" /\ UNCHANGED mr
                         ELSE /\ mr' = b.r /\ wpc' = "merge"
                              /\ UNCHANGED <<merr, outClosed, failed>>
  /\ UNCHANGED <<encoders,
                 opts, newErr, nClose, lessKind, bufferMax, in, inClosed,
                 out, bufferLen, files, err, werr, wrPc, pending, nSort,
                 sortRes, written, reads>>

\* ps.in is closed and drained: the end of sort(), up to the merge loop.
\* A spill file that cannot be opened makes merge() panic: its deferred
\* close(ps.out) runs while the panic unwinds.
EndOfInput ==
  /\ Running /\ wpc = "drain" /\ inputEnded
  /\ IF werr # NoErr
       THEN /\ outClosed' = TRUE /\ wpc' = "done"
            /\ UNCHANGED <<buffer, mr, merr, failed>>
       ELSE LET buf == SliceStable(buffer)
            IN  /\ buffer' = buf
                /\ \E openFails \in BOOLEAN, failAt \in DecodeFaults :
                     IF openFails /\ files # <<>>
                       THEN /\ wpc' = "panicking" /\ failed' = "open"
                            /\ outClosed' = TRUE /\ UNCHANGED <<mr, merr>>
                       ELSE LET b == newMergeReader(mergeReaders(buf, files, failAt))
                            IN  IF b.overflow
                                  THEN wpc' = "crashed" /\ UNCHANGED <<mr, merr, outClosed, failed>>
                                ELSE IF b.err # NoErr
                                  THEN /\ outClosed' = TRUE /\ merr' = b.err
                                       /\ wpc' = "store" /\ failed' = "decode" /\ UNCHANGED mr
                                ELSE /\ mr' = b.r /\ wpc' = "merge"
                                     /\ UNCHANGED <<merr, outClosed, failed>>
  /\ UNCHANGED <<encoders,
                 opts, newErr, nClose, lessKind, bufferMax, in, inClosed,
                 out, bufferLen, files, err, werr, wrPc, pending, nSort,
                 sortRes, written, reads>>

\* faulty variant: a failed Next is recorded and the loop goes on
MergeStepGoOn ==
  /\ Running /\ wpc = "merge"
  /\ LET n == readerNext(mr)
     IN  IF n.err # NoErr
           THEN /\ err' = n.err /\ merr' = n.err /\ failed' = "decode"
                /\ mr' = n.r /\ UNCHANGED <<out, outClosed, wpc>>
         ELSE IF n.val = Nil
           THEN /\ outClosed' = TRUE /\ wpc' = "done"
                /\ mr' = n.r /\ UNCHANGED <<out, merr, failed, err>>
         ELSE /\ Len(out) < ChanCap
              /\ out' = Append(out, n.val) /\ mr' = n.r
              /\ UNCHANGED <<outClosed, merr, wpc, failed, err>>
  /\ UNCHANGED <<encoders,
                 opts, newErr, nClose, lessKind, bufferMax, in, inClosed,
                 buffer, bufferLen, files, werr, wrPc, pending, nSort,
                 sortRes, written, reads>>

\* one iteration of the loop of merge(); the deferred close(ps.out) runs when
\* merge returns, before sort() stores the error merge returned
MergeStep ==
  /\ Running /\ wpc = "merge"
  /\ LET n == readerNext(mr)
     IN  IF n.err # NoErr
           THEN /\ outClosed' = TRUE /\ merr' = n.err /\ wpc' = "store"
                /\ failed' = "decode"
                /\ mr' = n.r /\ UNCHANGED out
         ELSE IF n.val = Nil
           THEN /\ outClosed' = TRUE /\ wpc' = "done"
                /\ mr' = n.r /\ UNCHANGED <<out, merr, failed>>
         ELSE /\ Len(out) < ChanCap
              /\ out' = Append(out, n.val) /\ mr' = n.r
              /\ UNCHANGED <<outClosed, merr, wpc, failed>>
  /\ UNCHANGED <<encoders,
                 opts, newErr, nClose, lessKind, bufferMax, in, inClosed,
                 buffer, bufferLen, files, err, werr, wrPc, pending, nSort,
                 sortRes, written, reads>>

\* ps.err.Store(err) after merge() has returned an error
StoreMergeErr ==
  /\ Running /\ wpc = "store"
  /\ err' = merr /\ wpc' = "done"
  /\ UNCHANGED <<encoders,
                 opts, newErr, nClose, failed, lessKind, bufferMax, in,
                 inClosed, out, outClosed, buffer, bufferLen, files, werr,
                 mr, merr, wrPc, pending, nSort, sortRes, written, reads>>

\* the panic of merge() reaches the top of the goroutine: the process aborts
Abort ==
  /\ Running /\ wpc = "panicking"
  /\ wpc' = "crashed"
  /\ UNCHANGED <<encoders,
                 opts, newErr, nClose, failed, lessKind, bufferMax, in,
                 inClosed, out, outClosed, buffer, bufferLen, files, err,
                 werr, mr, merr, wrPc, pending, nSort, sortRes, written,
                 reads>>

Worker ==
  TempDir \/ Drain \/ EndOfInput \/ MergeStep \/ StoreMergeErr \/ Abort

\* ---- the writer: Sort and Close --------------------------------------------
\* faulty variant: Sort sends without looking at ps.err
SortUnchecked(k) ==
  /\ Running /\ wrPc = "idle" /\ ~inClosed /\ nSort < MaxWrites
  /\ nSort' = nSort + 1
  /\ wrPc' = "send" /\ pending' = <<k, nSort + 1>> /\ UNCHANGED sortRes
  /\ UNCHANGED <<encoders,
                 opts, newErr, nClose, failed, lessKind, bufferMax, in,
                 inClosed, out, outClosed, buffer, bufferLen, files, err,
                 wpc, werr, mr, merr, written, reads>>

\* Sort(v) up to the send: the Load of ps.err and the early return
Sort(k) ==
  /\ Running /\ wrPc = "idle" /\ ~inClosed /\ nSort < MaxWrites
  /\ nSort' = nSort + 1
  /\ IF err # NoErr
       THEN sortRes' = err /\ UNCHANGED <<wrPc, pending>>
       ELSE wrPc' = "send" /\ pending' = <<k, nSort + 1>> /\ UNCHANGED sortRes
  /\ UNCHANGED <<encoders,
                 opts, newErr, nClose, failed, lessKind, bufferMax, in,
                 inClosed, out, outClosed, buffer, bufferLen, files, err,
                 wpc, werr, mr, merr, written, reads>>

\* "ps.in <- v" and the return of nil; blocks while the channel is full
SortSend ==
  /\ Running /\ wrPc = "send" /\ Len(in) < ChanCap
  /\ in' = Append(in, pending) /\ written' = Append(written, pending)
  /\ wrPc' = "idle" /\ pending' = Nil /\ sortRes' = NoErr
  /\ UNCHANGED <<encoders,
                 opts, newErr, nClose, failed, lessKind, bufferMax, inClosed,
                 out, outClosed, buffer, bufferLen, files, err, wpc, werr,
                 mr, merr, nSort, reads>>

\* Close(): close(ps.in), after the last Sort has returned.  Closing a
\* channel that is already closed panics.
Close ==
  /\ Running /\ wrPc = "idle" /\ nClose < MaxCloses
  /\ nClose' = nClose + 1
  /\ IF inClosed
       THEN wrPc' = "panicked" /\ UNCHANGED inClosed
       ELSE inClosed' = TRUE /\ UNCHANGED wrPc
  /\ UNCHANGED <<encoders,
                 opts, newErr, failed, lessKind, bufferMax, in, out,
                 outClosed, buffer, bufferLen, files, err, wpc, werr, mr,
                 merr, pending, nSort, sortRes, written, reads>>

\* ---- the reader: Read ------------------------------------------------------
EosReads == Cardinality({i \in 1..Len(reads) : reads[i].val = Nil})

\* Read(): the receive from ps.out and, on nil, the Load of ps.err.  A Store
\* between the receive and the Load gives the result of a Read taken after it.
Read ==
  /\ Running
  /\ IF out # <<>>
       THEN /\ reads' = Append(reads, [val |-> Head(out), err |-> NoErr])
            /\ out' = Tail(out)
       ELSE /\ outClosed /\ EosReads <= MaxEosReads
            /\ reads' = Append(reads, [val |-> Nil, err |-> err])
            /\ UNCHANGED out
  /\ UNCHANGED <<encoders,
                 opts, newErr, nClose, failed, lessKind, bufferMax, in,
                 inClosed, outClosed, buffer, bufferLen, files, err, wpc,
                 werr, mr, merr, wrPc, pending, nSort, sortRes, written>>

Next ==
  \/ TempDir \/ Drain \/ EndOfInput \/ MergeStep \/ StoreMergeErr \/ Abort
  \/ \E k \in Keys : Sort(k)
  \/ SortSend \/ Close \/ Read

Spec == Init /\ [][Next]_vars

\* the scheduler runs the worker goroutine, and the reader keeps calling Read
FairSpec == Spec /\ WF_vars(Worker) /\ WF_vars(Read)

\* ---- what the reader has seen ----------------------------------------------
RECURSIVE Records(_)
Records(rs) ==
  IF rs = <<>> THEN <<>>
  ELSE IF Head(rs).val = Nil THEN Records(Tail(rs))
  ELSE <<Head(rs).val>> \o Records(Tail(rs))

\* the records returned by Read so far, in order
got == Records(reads)

Count(s, x) == Cardinality({i \in 1..Len(s) : s[i] = x})

Range(s) == {s[i] : i \in 1..Len(s)}

SameBag(s, t) == \A x \in Range(s) \cup Range(t) : Count(s, x) = Count(t, x)

EqualRanked(a, b) == ~less(a, b) /\ ~less(b, a)

\* a Read has returned end of stream and the session ended without a failure
CleanEnd == EosReads >= 1 /\ wpc = "done" /\ err = NoErr

\* the failure the worker has run into, stored in ps.err or about to be
Failure == IF err # NoErr THEN err ELSE IF wpc = "store" THEN merr ELSE NoErr

\* ---- the output of a session without faults, as a function of the input ------
\* the drain loop of sort() over a whole input
RECURSIVE Feed(_, _, _, _)
Feed(inp, buf, fls, max) ==
  IF inp = <<>> THEN [buffer |-> buf, files |-> fls]
  ELSE LET b == Append(buf, Head(inp))
       IN  IF Len(b) >= max
             THEN LET f == flushBuffer(SliceStable(b), Len(b), fls,
                                       [kind |-> "none", at |-> 0])
                  IN  Feed(Tail(inp), f.buffer, f.files, max)
             ELSE Feed(Tail(inp), b, fls, max)

\* the loop of merge() run to the end of the stream
RECURSIVE DrainAll(_)
DrainAll(r) ==
  LET n == readerNext(r)
  IN  IF n.err # NoErr \/ n.val = Nil THEN <<>>
      ELSE <<n.val>> \o DrainAll(n.r)

\* what Read returns for a non-empty input under threshold max
OutputFor(inp, max) ==
  LET d == Feed(inp, <<>>, <<>>, max)
      noFault == [i \in 1..Len(d.files) |-> 0]
      b == newMergeReader(mergeReaders(SliceStable(d.buffer), d.files, noFault))
  IN  DrainAll(b.r)

\* ---- C1 ---------------------------------------------------------------------
\* C1: the records returned by successive Read calls are non-decreasing under
\* the comparator: for consecutive returned records x then y, less(y, x) is
\* false, whatever the input and the threshold.
OutputSorted ==
  \A i \in 1..(Len(got) - 1) : ~less(got[i+1], got[i])

\* an input written out of order, spilled into several files, read back whole
OutputSortedWitness ==
  /\ lessKind = "byKey" /\ Len(files) >= 2 /\ Len(got) >= 3
  /\ \E i \in 1..(Len(written) - 1) : written[i+1][1] < written[i][1]
  /\ EosReads >= 1

\* ---- C2 ---------------------------------------------------------------------
\* C2: in a session with no failure the records Read returned before the end
\* of stream are, as a multiset, the records written: none lost, none
\* duplicated, whatever the threshold and the number of spills.
OutputIsPermutation == CleanEnd => SameBag(got, written)

OutputIsPermutationWitness ==
  CleanEnd /\ Len(files) >= 1 /\ Len(buffer) >= 1 /\ Len(got) >= 3

\* ---- C3 ---------------------------------------------------------------------
\* C3: the sort is stable end to end: equal-ranked records are returned in the
\* order they were written (idx), also across runs.
OutputStable ==
  \A i, j \in 1..Len(got) :
    (i < j /\ EqualRanked(got[i], got[j])) => got[i][2] < got[j][2]

\* ---- C4 ---------------------------------------------------------------------
\* C4: when Close is called with no preceding write and nothing fails, the
\* worker terminates normally with the output queue closed, and the first
\* Read returns the end of stream with no error.
EmptyInputEnds ==
  (inClosed /\ nSort = 0 /\ werr = NoErr /\ wpc \notin {"tempdir", "drain"})
    => /\ wpc = "done" /\ outClosed /\ out = <<>>
       /\ (reads # <<>> => reads[1] = [val |-> Nil, err |-> NoErr])

\* ---- C5 ---------------------------------------------------------------------
\* C5: for a fixed input the sequence of records Read returns is the same for
\* every value of the threshold.
ThresholdIndependent ==
  (CleanEnd /\ written # <<>>)
    => \A max \in 1..MaxBufferMax : got = OutputFor(written, max)

\* ---- C6 ---------------------------------------------------------------------
\* C6: in a failed session the first Read that returns the end-of-stream value
\* returns the captured error, never (nil, no error).
FailureVisibleOnEos ==
  \A i \in 1..Len(reads) :
    (reads[i].val = Nil /\ Failure # NoErr) => reads[i].err = Failure

\* ---- C7 ---------------------------------------------------------------------
\* C7: after an Encode call has failed during a spill no Read returns a record,
\* and every Read that sees the end of stream returns that failure.
EncodeFailureSurfaces ==
  err = ErrEncode
    => \A i \in 1..Len(reads) : reads[i] = [val |-> Nil, err |-> ErrEncode]

\* an Encode failure with records written after it, then Close and a Read
EncodeFailureSurfacesWitness ==
  err = ErrEncode /\ inClosed /\ reads # <<>> /\ Len(buffer) >= 1

\* ---- C8 ---------------------------------------------------------------------
\* C8: once Close has been called the worker closes the output queue: until
\* it has, the worker or a Read can always take a step, so under fair
\* scheduling no Read stays blocked for ever.
OutputGetsClosed ==
  (inClosed /\ nClose = 1) => (outClosed \/ ENABLED (Worker \/ Read))

\* ---- C9 ---------------------------------------------------------------------
\* C9: after a Read has returned the end-of-stream value every later Read
\* returns the same result: the end-of-stream value with the same error.
EosRepeats ==
  \A i, j \in 1..Len(reads) :
    (i < j /\ reads[i].val = Nil) => reads[j] = reads[i]

\* ---- C10 --------------------------------------------------------------------
\* C10: a Sort called while the terminal error cell is set returns that error
\* at once: it does not wait to send, enqueues nothing and leaves the input
\* queue as it was.
SortFailsFast ==
  [][(nSort' = nSort + 1 /\ err # NoErr)
       => (sortRes' = err /\ wrPc' = "idle" /\ in' = in /\ written' = written)]_vars

\* a Sort has returned the stored error while the input was still open
SortFailsFastWitness ==
  sortRes # NoErr /\ ~inClosed /\ nSort >= 2

\* ---- C11 --------------------------------------------------------------------
\* C11: a second Close does not fail or crash and leaves the session as it
\* was after the first Close.
CloseIdempotent ==
  [][(nClose' = nClose + 1 /\ inClosed)
       => /\ wrPc' # "panicked"
          /\ UNCHANGED <<in, inClosed, out, outClosed, buffer, bufferLen,
                         files, err, wpc, reads>>]_vars

\* ---- C12 --------------------------------------------------------------------
\* the error value each failing operation of the worker produces
ErrOf(op) ==
  CASE op = "tempdir" -> ErrTempDir
    [] op = "encode"  -> ErrEncode
    [] op = "close"   -> ErrEncClose
    [] op = "decode"  -> ErrDecode
    [] OTHER          -> NoErr

\* C12: the terminal error cell is stored at most once: once set its value
\* never changes, and the value it gets is the failure that occurred.
ErrorCellSetOnce ==
  [][/\ err # NoErr => err' = err
     /\ err' # err => (failed' # "none" /\ err' = ErrOf(failed'))]_vars

\* a spill failed, more input was drained after it and the session ended
ErrorCellSetOnceWitness ==
  /\ failed = "encode" /\ err = ErrEncode /\ wpc = "done"
  /\ Len(written) > Len(buffer) /\ reads # <<>>

\* ---- C13 --------------------------------------------------------------------
\* C13: while the input has not been closed the output queue is empty and
\* open, and no Read has returned anything, in failing sessions too.
NoOutputBeforeClose ==
  ~inClosed => (out = <<>> /\ ~outClosed /\ reads = <<>>)

\* the worker has spilled, or has failed, and the input is still open
NoOutputBeforeCloseWitness ==
  ~inClosed /\ in = <<>> /\ Len(files) >= 1 /\ Len(written) >= 2 /\ err # NoErr

\* ---- C14 --------------------------------------------------------------------
\* C14: New returns an error and starts no worker when the comparator or a
\* codec constructor is missing; with all three it starts the worker and the
\* threshold is the one given, or 1,048,576.
NewChecksOptions ==
  IF opts.less /\ opts.enc /\ opts.dec
    THEN /\ newErr = NoErr /\ wpc # "none"
         /\ (~opts.hasMax => bufferMax = DefaultBufferMax)
         /\ (opts.hasMax => bufferMax \in 1..MaxBufferMax)
    ELSE /\ newErr = ErrNew /\ wpc = "none"
         /\ in = <<>> /\ out = <<>> /\ ~outClosed /\ err = NoErr
         /\ buffer = <<>> /\ files = <<>> /\ reads = <<>>

\* New called without a decoder constructor
NewChecksOptionsWitness ==
  opts.less /\ opts.enc /\ ~opts.dec /\ newErr = ErrNew /\ wpc = "none"

\* ---- C15 --------------------------------------------------------------------
\* C15: while the input is open the worker never stops dequeuing: whenever a
\* record is queued on the open input the worker can take a step.
WorkerKeepsDraining ==
  (~inClosed /\ in # <<>>) => ENABLED Worker

\* ---- C16 --------------------------------------------------------------------
\* C16: in a merge step whose pending records n0 (left) and n1 (right) are
\* equal-ranked, the left record n0 is the one emitted.
MergeTieLeftFirst ==
  (/\ wpc = "merge" /\ mr.kind = "merge"
   /\ mr.n0 # Nil /\ mr.n1 # Nil /\ EqualRanked(mr.n0, mr.n1)
   /\ readerNext(mr).err = NoErr)
    => readerNext(mr).val = mr.n0

\* ---- C17 --------------------------------------------------------------------
\* C17: a failure to open a spill file is a session error: the worker does
\* not abort, and ends with the error stored and the output queue closed.
OpenFailureIsSessionError ==
  failed = "open"
    => /\ wpc \notin {"panicking", "crashed"}
       /\ wpc = "done" => (outClosed /\ err # NoErr)

\* ---- C18 --------------------------------------------------------------------
\* C18: a failure to create the spill file is returned by the spill and
\* captured in the terminal error cell; it does not crash the worker.
TempFileFailureIsCaptured ==
  failed = "tempfile" => (wpc # "crashed" /\ err # NoErr)

\* ---- C19 --------------------------------------------------------------------
IsPrefix(s, t) == Len(s) <= Len(t) /\ SubSeq(t, 1, Len(s)) = s

SpillAccounting ==
  (failed = "none" /\ wpc \notin {"crashed", "none"})
    => LET N == Len(written) - Len(in)
       IN  /\ Len(files) = N \div bufferMax
           /\ \A f \in 1..Len(files) :
                /\ Len(files[f]) = bufferMax
                /\ \A i \in 1..(bufferMax - 1) : ~less(files[f][i+1], files[f][i])
           /\ Len(buffer) = N % bufferMax
           /\ bufferLen = Len(buffer) /\ bufferLen < bufferMax

\* one spill done and a residue in the buffer
SpillAccountingWitness ==
  /\ failed = "none" /\ wpc = "drain" /\ bufferMax >= 2
  /\ Len(files) >= 1 /\ Len(buffer) >= 1

\* ---- C21 --------------------------------------------------------------------
\* the Encode calls of a log hand over records in sorted order
EncodesSorted(log) ==
  \A i, j \in 1..Len(log) :
    (i < j /\ log[i].op = "Encode" /\ log[j].op = "Encode")
      => ~less(log[j].v, log[i].v)

\* C21: every Encoder a spill constructs receives one Encode per buffered
\* record in sorted order, then exactly one Close, and no Encode after the
\* Close; also when an Encode fails, one Close follows.
EncoderProtocol ==
  \A e \in 1..Len(encoders) :
    LET log == encoders[e]
        n == Len(log)
    IN  /\ n >= 1 /\ log[n] = CloseCall
        /\ \A i \in 1..(n-1) : log[i].op = "Encode"
        /\ EncodesSorted(log)
        /\ (e < Len(encoders) \/ failed # "encode") => n = bufferMax + 1

\* ---- C22 --------------------------------------------------------------------
\* C22: after a failed ioutil.TempDir the failure is the terminal error,
\* nothing is buffered, spilled or merged, the worker goes on dequeuing the
\* input until it is closed, only then closes the output, which never holds
\* a record, and every Read returns end of stream with that error.
TempDirFailureDrains ==
  failed = "tempdir"
    => /\ err = ErrTempDir
       /\ buffer = <<>> /\ bufferLen = 0 /\ files = <<>> /\ encoders = <<>>
       /\ mr = NilReader /\ merr = NoErr
       /\ out = <<>>
       /\ wpc \in {"drain", "done"}
       /\ outClosed <=> wpc = "done"
       /\ outClosed => inputEnded
       /\ (wrPc # "panicked" /\ wpc = "drain" /\ (in # <<>> \/ inClosed))
            => ENABLED Worker
       /\ \A i \in 1..Len(reads) :
            reads[i] = [val |-> Nil, err |-> ErrTempDir]

TempDirFailureDrainsWitness ==
  /\ failed = "tempdir" /\ wpc = "done" /\ outClosed
  /\ Len(written) >= 2 /\ in = <<>>
  /\ reads # <<>>

\* ---- C23 --------------------------------------------------------------------
\* the merge readers of the tree under reader r
RECURSIVE Nodes(_)
Nodes(r) ==
  IF r.kind = "merge" THEN {r} \cup Nodes(r.rs0) \cup Nodes(r.rs1) ELSE {}

\* reader r has no record left to return
RECURSIVE Exhausted(_)
Exhausted(r) ==
  CASE r.kind = "slice" -> r.n = Len(r.slice)
    [] r.kind = "file"  -> ~r.open \/ r.pos >= Len(r.data)
    [] r.kind = "merge" ->
         r.n0 = Nil /\ r.n1 = Nil /\ Exhausted(r.rs0) /\ Exhausted(r.rs1)
    [] OTHER -> TRUE

\* C23: in every merge reader of a merge that has not failed, less is never
\* called with nil; exhaustion is reported only when both children are
\* exhausted; and once one child is exhausted the next call returns the
\* other child's pending record and fetches its successor, without calling
\* less.
MergePassThrough ==
  (wpc \in {"merge", "done"} /\ failed = "none")
    => \A m \in Nodes(mr) :
         /\ m.cmp # Nil => (m.cmp[1] # Nil /\ m.cmp[2] # Nil)
         /\ m.n0 = Nil
              => (m.n1 = Nil /\ Exhausted(m.rs0) /\ Exhausted(m.rs1))
         /\ (mergeNext(m).val = Nil /\ mergeNext(m).err = NoErr)
              => m.n0 = Nil
         /\ (m.n0 # Nil /\ m.n1 = Nil)
              => LET x == mergeNext(m)
                 IN  /\ x.r.cmp = Nil
                     /\ x.err = NoErr
                          => /\ x.val = m.n0
                             /\ x.r.n0 = readerNext(m.rs0).val
                             /\ x.r.n1 = Nil

\* the left child ran out, a record of the right child has passed through
\* and another one is pending
MergePassThroughWitness ==
  /\ wpc = "merge" /\ failed = "none" /\ mr.kind = "merge"
  /\ mr.alias /\ mr.n0 # Nil /\ mr.n1 = Nil /\ mr.cmp = Nil
  /\ out # <<>>

==============================================================================
